---- MODULE Spec2Model ----
(***************************************************************************)
(* Model of the MPC wallet service: the CDPAgentkitClient of               *)
(* mpc_wallet_service/client.py and the HTTP endpoints of api/main.py.     *)
(*                                                                         *)
(* The state is the seed file at the fixed path, the wallets and transfers *)
(* held by the wallet provider, the outcome of the last completed call and *)
(* that of a create_wallet or load_wallet completed just before it.  The   *)
(* provider SDK (cdp.Cdp, cdp.Wallet) is an external collaborator: each of *)
(* its calls either succeeds with the effect its call site relies on or    *)
(* raises, as chosen by the environment (failAt).                          *)
(*                                                                         *)
(* Spec runs the calls one at a time.  SpecRace runs two seed-mutating     *)
(* calls concurrently, split at their file operations, next to load_wallet *)
(* calls: nothing in the code locks the seed file.                         *)
(***************************************************************************)
EXTENDS Integers, Sequences, FiniteSets, TLC

\* ------------------------------------------------------------------ bounds
MaxWallets == 2
MaxAddrs == 2
MaxTransfers == 1

Networks == {"base-sepolia"}
Urls == {"https://cb.example/hook"}
Recipients == {"0xabc"}
Amounts == {"1000"}
Assets == {"ETH"}
SenderIds == {1, 2}

\* ------------------------------------------------------- credentials, keys
\* The API key secret held by the process; it is the passphrase handed to
\* Wallet.load_seed and the credential the SDK is configured with.
api_key_private == "own-secret"
ForeignKey == "foreign-secret"

\* The attributes an instance of CDPAgentkitClient has: the fields set by
\* __init__ and the methods the class defines.
ClientAttrs ==
  {"api_key_name", "api_key_private", "seed_storage_path",
   "create_wallet", "import_wallet", "load_wallet", "create_address",
   "export_wallet", "retrieve_balances", "create_webhook",
   "execute_gasless_transaction"}

\* --------------------------------------------------------------- seed file
\* The file at seed_storage_path: whether it exists and, if so, the chunks
\* of text it holds in order (an empty file holds none).
AbsentFile == [exists |-> FALSE, data |-> <<>>]

SeedBlob(w, n, k) == [kind |-> "seed", wallet_id |-> w, network_id |-> n, key |-> k]
CorruptBlob == [kind |-> "corrupt", wallet_id |-> 0, network_id |-> "", key |-> ""]

\* OpenW opening in append mode: the old contents are kept.
OpenW_append(f) == [exists |-> TRUE, data |-> f.data]

\* open(path, "w"): creates or truncates the file.
OpenW(f) == [exists |-> TRUE, data |-> <<>>]

\* f.write(text) on the handle opened by OpenW.
FileWrite(f, text) == [exists |-> TRUE, data |-> f.data \o text]

\* ------------------------------------------------------- values and errors
NoValue == [kind |-> "none"]
NoExc == [type |-> "none", msg |-> <<>>, status |-> 0]

Exc(m) == [type |-> "Exception", msg |-> <<m>>, status |-> 0]
TypedExc(t, m) == [type |-> t, msg |-> <<m>>, status |-> 0]
HTTPException(s, d) == [type |-> "HTTPException", msg |-> d, status |-> s]

\* str(e): the message; starlette's HTTPException prints "<status>: <detail>".
Str(e) == IF e.type = "HTTPException" THEN <<"HTTP">> \o e.msg ELSE e.msg

\* raise Exception(f"<prefix>: {str(e)}")
Rewrap(prefix, e) == [type |-> "Exception", msg |-> <<prefix>> \o Str(e), status |-> 0]

World(f, ws, ts) == [file |-> f, wallets |-> ws, transfers |-> ts]

Ret(w, calls, v) == [world |-> w, calls |-> calls, ok |-> TRUE, value |-> v, exc |-> NoExc]
Raise(w, calls, e) == [world |-> w, calls |-> calls, ok |-> FALSE, value |-> NoValue, exc |-> e]

AddressIds(w, ws) == {<<w, i>> : i \in 1..ws[w].naddr}
Session(w, n, ws) ==
  [kind |-> "session", wallet_id |-> w, network_id |-> n,
   addresses |-> IF w \in 1..Len(ws) THEN AddressIds(w, ws) ELSE {}]
ExportData(s) ==
  [kind |-> "export", wallet_id |-> s.wallet_id, network_id |-> s.network_id]

\* ------------------------------------------------------------ SDK contract
\* Wallet.load_seed(file_path, passphrase): decrypts the one record of the
\* file with the passphrase and rebuilds the wallet; raises otherwise.
load_seed(w, passphrase) ==
  LET d == w.file.data IN
  IF Len(d) = 1 /\ d[1].kind = "seed" /\ d[1].key = passphrase
  THEN Ret(w, <<"load_seed">>, Session(d[1].wallet_id, d[1].network_id, w.wallets))
  ELSE Raise(w, <<"load_seed">>, TypedExc("ValueError", "seed cannot be decrypted"))

\* wallet.save_seed(path, encrypt=True): replaces the file by the wallet's
\* seed encrypted under the configured credential.
save_seed(f, id, n) == FileWrite(OpenW(f), <<SeedBlob(id, n, api_key_private)>>)

\* load_wallet without the os.path.exists check.
load_wallet_unchecked(w) ==
  LET r == load_seed(w, api_key_private) IN
  IF r.ok THEN r
  ELSE Raise(w, r.calls, Rewrap("Failed to load wallet", r.exc))

\* load_wallet that removes the seed file once it has read it.
load_wallet_consuming(w) ==
  IF ~w.file.exists
  THEN Raise(w, <<>>, Rewrap("Failed to load wallet", Exc("Wallet seed file not found.")))
  ELSE LET r == load_seed(w, api_key_private) IN
       IF r.ok THEN Ret([w EXCEPT !.file = AbsentFile], r.calls, r.value)
       ELSE Raise(w, r.calls, Rewrap("Failed to load wallet", r.exc))

\* ------------------------------------------------------------------ client
load_wallet(w) ==
  IF ~w.file.exists
  THEN Raise(w, <<>>, Rewrap("Failed to load wallet", Exc("Wallet seed file not found.")))
  ELSE LET r == load_seed(w, api_key_private) IN
       IF r.ok THEN r
       ELSE Raise(w, r.calls, Rewrap("Failed to load wallet", r.exc))

ProviderError(call) == TypedExc("ProviderError", call)

\* wallet.create_address(): the provider adds one address to wallet id.
wallet_create_address(w, id) == [w EXCEPT !.wallets[id].naddr = @ + 1]

\* create_wallet that never saves the seed.
persist_seed_skipped(w, id, n) == w

\* wallet.save_seed(self.seed_storage_path, encrypt=True)
persist_seed(w, id, n) == [w EXCEPT !.file = save_seed(@, id, n)]

\* create_wallet that deletes the provider-side wallet when save_seed fails.
create_wallet_rollback(w, network_id, failAt) ==
  LET P == "Failed to create wallet and address" IN
  IF failAt = "Wallet.create"
  THEN Raise(w, <<"Wallet.create">>, Rewrap(P, ProviderError("Wallet.create")))
  ELSE
    LET id == Len(w.wallets) + 1
        w1 == [w EXCEPT !.wallets = Append(@, [network_id |-> network_id, naddr |-> 0])]
    IN
    IF failAt = "create_address"
    THEN Raise(w1, <<"Wallet.create", "create_address">>,
               Rewrap(P, ProviderError("create_address")))
    ELSE
      LET w2 == wallet_create_address(w1, id)
          address_data == [address_id |-> <<id, w2.wallets[id].naddr>>,
                           wallet_id |-> id, network_id |-> network_id]
      IN
      IF failAt = "save_seed"
      THEN Raise(w, <<"Wallet.create", "create_address", "save_seed">>,
                 Rewrap(P, TypedExc("OSError", "save_seed")))
      ELSE
        Ret(persist_seed(w2, id, network_id),
            <<"Wallet.create", "create_address", "save_seed">>,
            [kind |-> "wallet_data", wallet_id |-> id, network_id |-> network_id,
             address |-> address_data])

create_wallet(w, network_id, failAt) ==
  LET P == "Failed to create wallet and address" IN
  IF failAt = "Wallet.create"
  THEN Raise(w, <<"Wallet.create">>, Rewrap(P, ProviderError("Wallet.create")))
  ELSE
    LET id == Len(w.wallets) + 1
        w1 == [w EXCEPT !.wallets = Append(@, [network_id |-> network_id, naddr |-> 0])]
    IN
    IF failAt = "create_address"
    THEN Raise(w1, <<"Wallet.create", "create_address">>,
               Rewrap(P, ProviderError("create_address")))
    ELSE
      LET w2 == wallet_create_address(w1, id)
          address_data == [address_id |-> <<id, w2.wallets[id].naddr>>,
                           wallet_id |-> id, network_id |-> network_id]
      IN
      IF failAt = "save_seed"
      THEN Raise(w2, <<"Wallet.create", "create_address", "save_seed">>,
                 Rewrap(P, TypedExc("OSError", "save_seed")))
      ELSE
        Ret(persist_seed(w2, id, network_id),
            <<"Wallet.create", "create_address", "save_seed">>,
            [kind |-> "wallet_data", wallet_id |-> id, network_id |-> network_id,
             address |-> address_data])

\* The write of import_wallet: open(self.seed_storage_path, "w"), then
\* f.write(encrypted_seed); the handle is closed when the block is left,
\* also by an exception.
write_seed_file(w, import_data) ==
  LET w1 == [w EXCEPT !.file = OpenW(@)] IN
  IF ~import_data.is_str
  THEN Raise(w1, <<>>, TypedExc("TypeError", "write() argument must be str"))
  ELSE Ret([w1 EXCEPT !.file = FileWrite(@, import_data.text)], <<>>, NoValue)

\* import_wallet that puts the old file back when the load fails.
import_wallet_rollback(w, import_data, failAt) ==
  LET P == "Failed to import wallet" IN
  IF ~import_data.has_seed
  THEN Raise(w, <<>>, Rewrap(P, Exc("Missing 'encrypted_seed' in payload.")))
  ELSE
    LET wr == write_seed_file(w, import_data) IN
    IF ~wr.ok THEN Raise(wr.world, wr.calls, Rewrap(P, wr.exc))
    ELSE
      LET r == load_wallet(wr.world) IN
      IF ~r.ok THEN Raise(w, r.calls, Rewrap(P, r.exc))
      ELSE IF failAt = "export_data"
      THEN Raise(r.world, r.calls \o <<"export_data">>,
                 Rewrap(P, ProviderError("export_data")))
      ELSE Ret(r.world, r.calls \o <<"export_data">>, ExportData(r.value))

import_wallet(w, import_data, failAt) ==
  LET P == "Failed to import wallet" IN
  IF ~import_data.has_seed
  THEN Raise(w, <<>>, Rewrap(P, Exc("Missing 'encrypted_seed' in payload.")))
  ELSE
    LET wr == write_seed_file(w, import_data) IN
    IF ~wr.ok THEN Raise(wr.world, wr.calls, Rewrap(P, wr.exc))
    ELSE
      LET r == load_wallet(wr.world) IN
      IF ~r.ok THEN Raise(r.world, r.calls, Rewrap(P, r.exc))
      ELSE IF failAt = "export_data"
      THEN Raise(r.world, r.calls \o <<"export_data">>,
                 Rewrap(P, ProviderError("export_data")))
      ELSE Ret(r.world, r.calls \o <<"export_data">>, ExportData(r.value))

\* create_address that reopens the seed file for writing once the address
\* exists.
create_address_reopen(w, failAt) ==
  LET P == "Failed to create new address"
      r == load_wallet(w)
  IN
  IF ~r.ok THEN Raise(r.world, r.calls, Rewrap(P, r.exc))
  ELSE IF failAt = "create_address"
  THEN Raise(r.world, r.calls \o <<"create_address">>,
             Rewrap(P, ProviderError("create_address")))
  ELSE
    LET id == r.value.wallet_id
        w1 == wallet_create_address(r.world, id)
    IN Ret([w1 EXCEPT !.file = OpenW(@)], r.calls \o <<"create_address">>,
           [kind |-> "address", address_id |-> <<id, w1.wallets[id].naddr>>,
            wallet_id |-> id, network_id |-> r.value.network_id])

create_address(w, failAt) ==
  LET P == "Failed to create new address"
      r == load_wallet(w)
  IN
  IF ~r.ok THEN Raise(r.world, r.calls, Rewrap(P, r.exc))
  ELSE IF failAt = "create_address"
  THEN Raise(r.world, r.calls \o <<"create_address">>,
             Rewrap(P, ProviderError("create_address")))
  ELSE
    LET id == r.value.wallet_id
        w1 == wallet_create_address(r.world, id)
    IN Ret(w1, r.calls \o <<"create_address">>,
           [kind |-> "address", address_id |-> <<id, w1.wallets[id].naddr>>,
            wallet_id |-> id, network_id |-> r.value.network_id])

\* export_wallet that exports the wallet created last instead of the one it
\* loaded.
export_wallet_cached(w, failAt) ==
  LET P == "Failed to export wallet"
      r == load_wallet(w)
  IN
  IF ~r.ok THEN Raise(r.world, r.calls, Rewrap(P, r.exc))
  ELSE IF failAt = "export_data"
  THEN Raise(r.world, r.calls \o <<"export_data">>,
             Rewrap(P, ProviderError("export_data")))
  ELSE Ret(r.world, r.calls \o <<"export_data">>,
           ExportData(Session(Len(r.world.wallets), r.value.network_id, r.world.wallets)))

export_wallet(w, failAt) ==
  LET P == "Failed to export wallet"
      r == load_wallet(w)
  IN
  IF ~r.ok THEN Raise(r.world, r.calls, Rewrap(P, r.exc))
  ELSE IF failAt = "export_data"
  THEN Raise(r.world, r.calls \o <<"export_data">>,
             Rewrap(P, ProviderError("export_data")))
  ELSE Ret(r.world, r.calls \o <<"export_data">>, ExportData(r.value))

retrieve_balances(w, failAt) ==
  LET P == "Failed to retrieve balances"
      r == load_wallet(w)
  IN
  IF ~r.ok THEN Raise(r.world, r.calls, Rewrap(P, r.exc))
  ELSE IF failAt = "balances"
  THEN Raise(r.world, r.calls \o <<"balances">>, Rewrap(P, ProviderError("balances")))
  ELSE Ret(r.world, r.calls \o <<"balances">>,
           [kind |-> "balances", wallet_id |-> r.value.wallet_id])

create_webhook(w, callback_url, failAt) ==
  LET P == "Failed to create webhook"
      r == load_wallet(w)
  IN
  IF ~r.ok THEN Raise(r.world, r.calls, Rewrap(P, r.exc))
  ELSE IF failAt = "Wallet.create_webhook"
  THEN Raise(r.world, r.calls \o <<"Wallet.create_webhook">>,
             Rewrap(P, ProviderError("Wallet.create_webhook")))
  ELSE
    LET hook == [wallet_id |-> r.value.wallet_id, callback_url |-> callback_url,
                 event_types |-> {"TRANSACTION_RECEIVED"}]
    IN Ret(r.world,
           r.calls \o <<"Wallet.create_webhook">>,
           [kind |-> "webhook", hook |-> hook])

\* Lines 226-236 run before the try block: an error there is not rewrapped.
execute_gasless_transaction(w, wallet_id, to_address, amount, asset, failAt) ==
  LET P == "Failed to execute gasless transaction" IN
  IF failAt = "Cdp.get_api_base"
  THEN Raise(w, <<"Cdp.get_api_base">>, TypedExc("AttributeError", "get_api_base"))
  ELSE
    LET payload == [wallet_id |-> wallet_id, to |-> to_address, amount |-> amount,
                    asset |-> asset, transfer_type |-> "GASLESS"]
    IN
    IF "_get_headers" \notin ClientAttrs
    THEN Raise(w, <<"Cdp.get_api_base">>, TypedExc("AttributeError", "_get_headers"))
    ELSE IF "timeout" \notin ClientAttrs
    THEN Raise(w, <<"Cdp.get_api_base">>,
               Rewrap(P, TypedExc("AttributeError", "timeout")))
    ELSE IF failAt = "Cdp.request"
    THEN Raise(w, <<"Cdp.get_api_base", "Cdp.request">>,
               Rewrap(P, ProviderError("Cdp.request")))
    ELSE Ret([w EXCEPT !.transfers = Append(@, payload)],
             <<"Cdp.get_api_base", "Cdp.request">>,
             [kind |-> "transfer", request |-> payload])

\* --------------------------------------------------------------- endpoints
\* except Exception as e: raise HTTPException(status_code=400, detail=str(e)).
\* Every exception type of the model, HTTPException included, is a subclass
\* of Exception and is caught here.
api_except(r) ==
  IF r.ok THEN r ELSE Raise(r.world, r.calls, HTTPException(400, Str(r.exc)))

api_create_wallet(w, network_id, failAt) ==
  api_except(create_wallet(w, network_id, failAt))

\* The endpoint's own write: open(seed_file_path, 'w'), f.write(encrypted_seed).
api_write_seed_file(w, body) ==
  LET w1 == [w EXCEPT !.file = OpenW(@)] IN
  IF ~body.is_str
  THEN Raise(w1, <<>>, TypedExc("TypeError", "write() argument must be str"))
  ELSE Ret([w1 EXCEPT !.file = FileWrite(@, body.text)], <<>>, NoValue)

\* The import endpoint opening the file before it checks the field.
api_import_try_open_first(w, body) ==
  LET w1 == [w EXCEPT !.file = OpenW(@)] IN
  IF ~body.has_seed
  THEN Raise(w1, <<>>, HTTPException(422, <<"Missing 'encrypted_seed' field in payload">>))
  ELSE
    LET wr == api_write_seed_file(w, body) IN
    IF ~wr.ok THEN wr ELSE load_wallet(wr.world)

\* The try block of the import endpoint.
api_import_try(w, body) ==
  IF ~body.has_seed
  THEN Raise(w, <<>>, HTTPException(422, <<"Missing 'encrypted_seed' field in payload">>))
  ELSE
    LET wr == api_write_seed_file(w, body) IN
    IF ~wr.ok THEN wr ELSE load_wallet(wr.world)

api_import_wallet(w, body) == api_except(api_import_try(w, body))

api_export_wallet(w, failAt) == api_except(export_wallet(w, failAt))

api_retrieve_balances(w, failAt) == api_except(retrieve_balances(w, failAt))

api_create_address(w, failAt) == api_except(create_address(w, failAt))

api_create_webhook(w, callback_url, failAt) ==
  api_except(create_webhook(w, callback_url, failAt))

\* The asset argument: "USDC" when the caller leaves it out.
Omitted == "<omitted>"
AssetOrDefault(a) == IF a = Omitted THEN "USDC" ELSE a

api_execute_gasless_transaction(w, tx, failAt) ==
  api_except(execute_gasless_transaction(w, tx.wallet_id, tx.to_address, tx.amount,
                                         AssetOrDefault(tx.asset), failAt))

\* ------------------------------------------------------------------ inputs
NoSeedField == [has_seed |-> FALSE, is_str |-> FALSE, text |-> <<>>]
NonStringSeed == [has_seed |-> TRUE, is_str |-> FALSE, text |-> <<>>]
StringSeed(t) == [has_seed |-> TRUE, is_str |-> TRUE, text |-> t]

\* A seed another process encrypted under its own credential.
ForeignBlob == SeedBlob(0, "base-sepolia", ForeignKey)

\* The strings a caller can supply: the empty string, a corrupt blob, a
\* foreign blob, and the seed of a wallet the provider holds, encrypted under
\* the credential this process holds.
SeedTexts(ws) ==
  {<<>>, <<CorruptBlob>>, <<ForeignBlob>>}
    \cup {<<SeedBlob(i, ws[i].network_id, api_key_private)>> : i \in 1..Len(ws)}

ImportPayloads(ws) ==
  {NoSeedField, NonStringSeed} \cup {StringSeed(t) : t \in SeedTexts(ws)}

TxRequests ==
  [wallet_id : SenderIds, to_address : Recipients, amount : Amounts,
   asset : Assets \cup {Omitted}]

VARIABLES seed_file, wallets, transfers, last, prev, race
vars == <<seed_file, wallets, transfers, last, prev, race>>

Now == World(seed_file, wallets, transfers)

NoCall ==
  [layer |-> "none", op |-> "none", input |-> NoValue,
   before |-> AbsentFile, status |-> 0,
   ok |-> TRUE, value |-> NoValue, exc |-> NoExc, calls |-> <<>>]

\* The calls whose outcome is kept while the following call runs, and what
\* is kept of it.
TrackedOps == {"create_wallet", "load_wallet"}
Outcome(c) == [op |-> c.op, before |-> c.before, ok |-> c.ok, value |-> c.value]

\* The seed-mutating calls that run concurrently with one another.
Writers == {1, 2}

\* No concurrent call has started: for each writer, where it is, what kind
\* of call it runs, the text it writes and (for an import) what its closing
\* load_wallet returned; lastw is the writer whose write came last.
RaceIdle ==
  [pc |-> [p \in Writers |-> "idle"],
   kind |-> [p \in Writers |-> "none"],
   text |-> [p \in Writers |-> <<>>],
   loaded |-> [p \in Writers |-> "none"],
   lastw |-> 0]

Init ==
  /\ race = RaceIdle
  /\ seed_file = AbsentFile
  /\ wallets = <<>>
  /\ transfers = <<>>
  /\ last = NoCall
  /\ prev = Outcome(NoCall)

\* A call returned r: the world becomes r.world and the call is recorded.
Complete(layer, op, input, r) ==
  /\ Len(r.world.wallets) <= MaxWallets
  /\ \A i \in 1..Len(r.world.wallets) : r.world.wallets[i].naddr <= MaxAddrs
  /\ Len(r.world.transfers) <= MaxTransfers
  /\ seed_file' = r.world.file
  /\ wallets' = r.world.wallets
  /\ transfers' = r.world.transfers
  /\ last' = [layer |-> layer, op |-> op, input |-> input,
              before |-> seed_file,
              status |-> IF layer # "api" THEN 0 ELSE IF r.ok THEN 200 ELSE r.exc.status,
              ok |-> r.ok, value |-> r.value, exc |-> r.exc, calls |-> r.calls]
  /\ prev' = IF last.op \in TrackedOps THEN Outcome(last) ELSE Outcome(NoCall)
  /\ race' = race

Call_load_wallet == Complete("client", "load_wallet", NoValue, load_wallet(Now))

Call_create_wallet ==
  \E n \in Networks, fa \in {"none", "Wallet.create", "create_address", "save_seed"} :
    Complete("client", "create_wallet", [network_id |-> n], create_wallet(Now, n, fa))

Call_import_wallet ==
  \E d \in ImportPayloads(wallets), fa \in {"none", "export_data"} :
    Complete("client", "import_wallet", d, import_wallet(Now, d, fa))

Call_create_address ==
  \E fa \in {"none", "create_address"} :
    Complete("client", "create_address", NoValue, create_address(Now, fa))

Call_export_wallet ==
  \E fa \in {"none", "export_data"} :
    Complete("client", "export_wallet", NoValue, export_wallet(Now, fa))

Call_retrieve_balances ==
  \E fa \in {"none", "balances"} :
    Complete("client", "retrieve_balances", NoValue, retrieve_balances(Now, fa))

Call_create_webhook ==
  \E u \in Urls, fa \in {"none", "Wallet.create_webhook"} :
    Complete("client", "create_webhook", [callback_url |-> u],
             create_webhook(Now, u, fa))

Call_execute_gasless_transaction ==
  \E tx \in TxRequests, fa \in {"none", "Cdp.get_api_base", "Cdp.request"} :
    Complete("client", "execute_gasless_transaction", tx,
             execute_gasless_transaction(Now, tx.wallet_id, tx.to_address, tx.amount,
                                         AssetOrDefault(tx.asset), fa))

Http_create_wallet ==
  \E n \in Networks, fa \in {"none", "Wallet.create", "create_address", "save_seed"} :
    Complete("api", "create_wallet", [network_id |-> n],
             api_create_wallet(Now, n, fa))

Http_import_wallet ==
  \E d \in ImportPayloads(wallets) :
    Complete("api", "import_wallet", d, api_import_wallet(Now, d))

Http_export_wallet ==
  \E fa \in {"none", "export_data"} :
    Complete("api", "export_wallet", NoValue, api_export_wallet(Now, fa))

Http_retrieve_balances ==
  \E fa \in {"none", "balances"} :
    Complete("api", "retrieve_balances", NoValue, api_retrieve_balances(Now, fa))

Http_create_address ==
  \E fa \in {"none", "create_address"} :
    Complete("api", "create_address", NoValue, api_create_address(Now, fa))

Http_create_webhook ==
  \E u \in Urls, fa \in {"none", "Wallet.create_webhook"} :
    Complete("api", "create_webhook", [callback_url |-> u],
             api_create_webhook(Now, u, fa))

Http_execute_gasless_transaction ==
  \E tx \in TxRequests, fa \in {"none", "Cdp.get_api_base", "Cdp.request"} :
    Complete("api", "execute_gasless_transaction", tx,
             api_execute_gasless_transaction(Now, tx, fa))

Next ==
  \/ Call_create_wallet
  \/ Call_import_wallet
  \/ Call_load_wallet
  \/ Call_create_address
  \/ Call_export_wallet
  \/ Call_retrieve_balances
  \/ Call_create_webhook
  \/ Call_execute_gasless_transaction
  \/ Http_create_wallet
  \/ Http_import_wallet
  \/ Http_export_wallet
  \/ Http_retrieve_balances
  \/ Http_create_address
  \/ Http_create_webhook
  \/ Http_execute_gasless_transaction

Spec == Init /\ [][Next]_vars

\* --------------------------------------------------------- concurrent calls
\* The flush of a handle opened by OpenW: the text goes to the handle's own
\* offset pos, over whatever the file holds there by now.
PWrite_append(f, pos, text) == [exists |-> TRUE, data |-> f.data \o text]

PWrite(f, pos, text) ==
  [exists |-> TRUE,
   data |-> [i \in 1..(IF Len(f.data) > pos + Len(text) THEN Len(f.data) ELSE pos + Len(text))
               |-> IF i > pos /\ i <= pos + Len(text) THEN text[i - pos] ELSE f.data[i]]]

\* A corrupt string twice as long as the other texts.
LongCorruptText == <<CorruptBlob, CorruptBlob>>
RaceTexts(ws) == SeedTexts(ws) \cup {LongCorruptText}

\* Writer p starts an import of a string: the field check passes and the
\* file is opened for writing, which truncates it.
Race_import_open(p) ==
  /\ race.pc[p] = "idle"
  /\ \E t \in RaceTexts(wallets) :
       race' = [race EXCEPT !.pc[p] = "opened", !.kind[p] = "import", !.text[p] = t]
  /\ seed_file' = OpenW(seed_file)
  /\ UNCHANGED <<wallets, transfers, last, prev>>

\* Writer p starts a create_wallet: the provider allocates the wallet and
\* its first address; the seed to save is that wallet's.
Race_create_begin(p) ==
  /\ race.pc[p] = "idle"
  /\ Len(wallets) < MaxWallets
  /\ \E n \in Networks :
       LET id == Len(wallets) + 1
           w1 == [Now EXCEPT !.wallets = Append(@, [network_id |-> n, naddr |-> 0])]
       IN /\ wallets' = wallet_create_address(w1, id).wallets
          /\ race' = [race EXCEPT !.pc[p] = "ready", !.kind[p] = "create",
                                  !.text[p] = <<SeedBlob(id, n, api_key_private)>>]
  /\ UNCHANGED <<seed_file, transfers, last, prev>>

\* save_seed of writer p opens the seed file for writing.
Race_save_open(p) ==
  /\ race.pc[p] = "ready"
  /\ race' = [race EXCEPT !.pc[p] = "opened"]
  /\ seed_file' = OpenW(seed_file)
  /\ UNCHANGED <<wallets, transfers, last, prev>>

\* Writer p's text reaches the file when its handle is closed; create_wallet
\* then returns, import_wallet goes on to load the wallet.
Race_write(p) ==
  /\ race.pc[p] = "opened"
  /\ seed_file' = PWrite(seed_file, 0, race.text[p])
  /\ race' = [race EXCEPT !.pc[p] = IF race.kind[p] = "create" THEN "done" ELSE "written",
                          !.lastw = p]
  /\ UNCHANGED <<wallets, transfers, last, prev>>

\* The load_wallet that ends writer p's import.
Race_import_load(p) ==
  /\ race.pc[p] = "written"
  /\ race' = [race EXCEPT !.pc[p] = "done",
                          !.loaded[p] = IF load_wallet(Now).ok THEN "ok" ELSE "error"]
  /\ UNCHANGED <<seed_file, wallets, transfers, last, prev>>

RaceNext ==
  \/ \E p \in Writers : Race_import_open(p)
  \/ \E p \in Writers : Race_create_begin(p)
  \/ \E p \in Writers : Race_save_open(p)
  \/ \E p \in Writers : Race_write(p)
  \/ \E p \in Writers : Race_import_load(p)
  \/ Call_load_wallet

SpecRace == Init /\ [][RaceNext]_vars

\* ================================================================== claims
Count(seq, x) == Cardinality({i \in DOMAIN seq : seq[i] = x})

MissingSeedImport(c) == c.op = "import_wallet" /\ ~c.input.has_seed
StringSeedImport(c) == c.op = "import_wallet" /\ c.input.has_seed /\ c.input.is_str

\* The file holds nothing the held passphrase decrypts.
Undecryptable(f) ==
  /\ f.exists
  /\ \A i \in DOMAIN f.data : f.data[i].kind # "seed" \/ f.data[i].key # api_key_private

Cause(c) == c.exc.msg[Len(c.exc.msg)]

\* An error outcome handed to the caller: the rewrapped Exception of the
\* client, the 400 response of an endpoint.
ErrorOutcome(c) ==
  /\ ~c.ok
  /\ IF c.layer = "api" THEN c.status = 400
     ELSE c.exc.type = "Exception" /\ Len(c.exc.msg) >= 2

RehydratingOps ==
  {"load_wallet", "create_address", "export_wallet", "retrieve_balances", "create_webhook"}
NeedsWalletOps ==
  {"create_address", "export_wallet", "retrieve_balances", "create_webhook"}

\* C1: POST /wallet/import with no 'encrypted_seed' field is answered 422,
\* a status different from the 400 of operational failures.
C1_MissingSeedAnswered422 ==
  (last.layer = "api" /\ MissingSeedImport(last))
    => (last.status = 422 /\ last.status # 400)

\* C2: an import whose payload has no 'encrypted_seed' field fails, leaves
\* the seed file (existence and contents) as it was and makes no provider call.
C2_MissingSeedWritesNothing ==
  MissingSeedImport(last)
    => (~last.ok /\ seed_file = last.before /\ last.calls = <<>>)

C2_Witness ==
  /\ last.layer = "api"
  /\ MissingSeedImport(last)
  /\ last.before.exists
  /\ last.before.data # <<>>

\* C3: the seed file holds at most one seed record in every state, and
\* after an import of the string B2 it holds exactly B2, whatever it held
\* before.
C3_SingleSlotOverwrite ==
  /\ Len(seed_file.data) <= 1
  /\ ~seed_file.exists => seed_file.data = <<>>
  /\ StringSeedImport(last) => (seed_file.exists /\ seed_file.data = last.input.text)

C3_Witness ==
  /\ StringSeedImport(last)
  /\ last.before.exists
  /\ Len(last.before.data) = 1
  /\ last.before.data[1] = SeedBlob(2, "base-sepolia", api_key_private)
  /\ last.input.text = <<SeedBlob(1, "base-sepolia", api_key_private)>>
  /\ seed_file.data = last.input.text

\* C4: an import of a string the held passphrase cannot decrypt ends with an
\* error outcome and leaves the file holding that string (the earlier seed is
\* not put back); a rehydrating call that finds such a file fails and leaves
\* it in place.
C4_UndecryptableImportSticks ==
  /\ (StringSeedImport(last) /\ Undecryptable([exists |-> TRUE, data |-> last.input.text]))
       => (ErrorOutcome(last) /\ seed_file.exists /\ seed_file.data = last.input.text)
  /\ (last.op \in RehydratingOps /\ Undecryptable(last.before))
       => (ErrorOutcome(last) /\ seed_file = last.before)

C4_Witness ==
  /\ StringSeedImport(last)
  /\ last.input.text = <<CorruptBlob>>
  /\ last.before.exists
  /\ ~Undecryptable(last.before)
  /\ ~last.ok
  /\ seed_file.data = <<CorruptBlob>>

\* C5: with no seed file, export, balances, create-address and create-webhook
\* fail with the not-found error, issue no provider call and create no file.
C5_NoSeedFileNoSideEffect ==
  (last.op \in NeedsWalletOps /\ ~last.before.exists)
    => /\ ErrorOutcome(last)
       /\ Cause(last) = "Wallet seed file not found."
       /\ last.calls = <<>>
       /\ seed_file = last.before

C5_Witness ==
  /\ last.op = "create_webhook"
  /\ ~last.before.exists
  /\ wallets # <<>>
  /\ ~last.ok

\* C6: when create_wallet returns, the seed file holds the seed of the
\* returned wallet, and a load_wallet called next returns a session with the
\* wallet id and network id create_wallet returned.
C6_CreateThenLoadRoundTrip ==
  /\ (last.op = "create_wallet" /\ last.ok)
       => /\ seed_file.exists
          /\ Len(seed_file.data) = 1
          /\ seed_file.data[1].wallet_id = last.value.wallet_id
  /\ (prev.op = "create_wallet" /\ prev.ok /\ last.op = "load_wallet")
       => /\ last.ok
          /\ last.value.wallet_id = prev.value.wallet_id
          /\ last.value.network_id = prev.value.network_id

C6_Witness ==
  /\ prev.op = "create_wallet"
  /\ prev.ok
  /\ prev.before.exists
  /\ prev.value.wallet_id = 2
  /\ last.op = "load_wallet"
  /\ last.ok

\* C7: two load_wallet calls in succession return the same outcome (the same
\* wallet id, network id and address set) and neither changes the seed file.
C7_LoadTwiceSame ==
  (prev.op = "load_wallet" /\ last.op = "load_wallet")
    => /\ last.ok = prev.ok
       /\ last.ok => /\ last.value.wallet_id = prev.value.wallet_id
                     /\ last.value.network_id = prev.value.network_id
                     /\ last.value.addresses = prev.value.addresses
       /\ last.before = prev.before
       /\ seed_file = last.before

C7_Witness ==
  /\ prev.op = "load_wallet"
  /\ prev.ok
  /\ last.op = "load_wallet"
  /\ last.ok
  /\ Cardinality(last.value.addresses) = 2

\* C8: the success payload of POST /wallet/import is the provider's export
\* of the loaded wallet, the kind of value GET /wallet/export returns, not
\* the session object.
C8_ImportReturnsExport ==
  (last.layer = "api" /\ last.op = "import_wallet" /\ last.ok)
    => last.value.kind = "export"

\* C9: a failure inside a client operation reaches the caller as the wrapped
\* Exception carrying the cause's message, and no call was made twice.
C9_FailuresAreWrapped ==
  (last.layer = "client" /\ ~last.ok)
    => /\ last.exc.type = "Exception"
       /\ Len(last.exc.msg) >= 2
       /\ \A i \in DOMAIN last.calls : Count(last.calls, last.calls[i]) = 1

\* C10: execute_gasless_transaction submits its GASLESS transfer request to
\* the provider exactly once (unless the SDK fails it before that) and
\* returns the confirmation of that request.
C10_GaslessSubmittedOnce ==
  (last.op = "execute_gasless_transaction" /\ last.layer = "client"
     /\ (last.ok \/ Cause(last) \notin {"get_api_base", "Cdp.request"}))
    => /\ Count(last.calls, "Cdp.request") = 1
       /\ last.ok
       /\ last.value.request.transfer_type = "GASLESS"
       /\ last.value.request.asset = AssetOrDefault(last.input.asset)
       /\ last.value.request.wallet_id = last.input.wallet_id

\* The wallet a completed call acted on, as its result names it.
ActedOn(c) == IF c.op = "create_webhook" THEN c.value.hook.wallet_id ELSE c.value.wallet_id

\* C12 as stated: create-address, export, balances, create-webhook and the
\* gasless transfer each load the wallet from the seed file, once, on every
\* call that finds a seed file.
C12_EveryOperationRehydrates ==
  (last.op \in NeedsWalletOps \cup {"execute_gasless_transaction"} /\ last.before.exists)
    => Count(last.calls, "load_seed") = 1

\* C12 amended: create-address, export, balances and create-webhook each
\* load the wallet from the seed file before anything else, once, and act on
\* the wallet whose seed the file holds at that time; the gasless transfer
\* never loads it.
C12_WalletOperationsRehydrate ==
  /\ (last.op \in NeedsWalletOps /\ last.before.exists)
       => /\ last.calls # <<>>
          /\ last.calls[1] = "load_seed"
          /\ Count(last.calls, "load_seed") = 1
  /\ (last.op \in NeedsWalletOps /\ last.ok)
       => /\ Len(last.before.data) = 1
          /\ ActedOn(last) = last.before.data[1].wallet_id
  /\ last.op = "execute_gasless_transaction" => Count(last.calls, "load_seed") = 0

C12_Witness ==
  /\ last.op = "export_wallet"
  /\ last.ok
  /\ Len(wallets) = 2
  /\ wallets[2].naddr = 1
  /\ last.before.data = <<SeedBlob(1, "base-sepolia", api_key_private)>>
  /\ ActedOn(last) = 1

\* C13: create-address, export, balances, create-webhook and load leave the
\* seed file as it was, whether they succeed or fail, and the address record
\* create-address returns carries the wallet id and network id of the seed
\* in the file.
C13_RehydratingOpsKeepSeed ==
  /\ last.op \in RehydratingOps => seed_file = last.before
  /\ (last.op = "create_address" /\ last.ok)
       => /\ Len(last.before.data) = 1
          /\ last.value.wallet_id = last.before.data[1].wallet_id
          /\ last.value.network_id = last.before.data[1].network_id
          /\ last.value.address_id \in AddressIds(last.value.wallet_id, wallets)

C13_Witness ==
  /\ last.op = "create_address"
  /\ last.ok
  /\ last.value.address_id = <<1, 2>>
  /\ seed_file.data = <<SeedBlob(1, "base-sepolia", api_key_private)>>

\* C14: create_wallet calls Wallet.create, create_address and save_seed in
\* that order, each once; when save_seed fails it ends with an error
\* outcome, the new wallet and its address stay at the provider, and the
\* seed file is as before, holding no seed of the new wallet.
C14_FailedPersistLeavesOrphan ==
  /\ (last.op = "create_wallet" /\ last.ok)
       => last.calls = <<"Wallet.create", "create_address", "save_seed">>
  /\ (last.op = "create_wallet" /\ ~last.ok /\ Cause(last) = "save_seed")
       => /\ ErrorOutcome(last)
          /\ last.calls = <<"Wallet.create", "create_address", "save_seed">>
          /\ wallets # <<>>
          /\ wallets[Len(wallets)].naddr = 1
          /\ seed_file = last.before
          /\ \A i \in DOMAIN seed_file.data : seed_file.data[i].wallet_id # Len(wallets)

C14_Witness ==
  /\ last.op = "create_wallet"
  /\ ~last.ok
  /\ Cause(last) = "save_seed"
  /\ Len(wallets) = 2
  /\ seed_file.data = <<SeedBlob(1, "base-sepolia", api_key_private)>>

\* C15: after an import request the seed file is as it was before the
\* request or holds exactly the supplied 'encrypted_seed' string.
C15_ImportLeavesOldOrNew ==
  last.op = "import_wallet"
    => \/ seed_file = last.before
       \/ /\ last.input.has_seed
          /\ last.input.is_str
          /\ seed_file.exists
          /\ seed_file.data = last.input.text

RaceDone == \A p \in Writers : race.pc[p] = "done"
Other(p) == CHOOSE q \in Writers : q # p
TailAfter(t, n) == SubSeq(t, n + 1, Len(t))

\* What the seed file can hold while or after the two calls run: nothing,
\* the text of one call, or the text of one call followed by what the longer
\* text of the other call leaves behind it.
RaceContents ==
  {<<>>}
    \cup {race.text[p] : p \in Writers}
    \cup {race.text[p] \o TailAfter(race.text[Other(p)], Len(race.text[p])) : p \in Writers}

\* C11 as stated: once both concurrent calls have finished, the seed file
\* holds the blob of whichever write happened last.
C11_LastWriterWins ==
  RaceDone => (seed_file.exists /\ seed_file.data = race.text[race.lastw])

\* C11 amended: once both calls have finished, the seed file starts with
\* the blob written last and holds after it only what a longer blob of the
\* other call left there; at any moment the file, and so what a load_wallet
\* reads, is empty, one call's blob, or such a mix.
C11_LastWriteOverlays ==
  /\ RaceDone
       => /\ seed_file.exists
          /\ seed_file.data
               = race.text[race.lastw]
                   \o TailAfter(race.text[Other(race.lastw)], Len(race.text[race.lastw]))
             \/ seed_file.data = race.text[race.lastw]
  /\ seed_file.data \in RaceContents
  /\ last.op = "load_wallet" => last.before.data \in RaceContents

\* A load_wallet read the old blob, a second one reads an empty file while
\* writer 1 has truncated it and not yet written its own blob.
C11_Witness ==
  /\ race.pc[1] = "opened"
  /\ race.text[1] # <<>>
  /\ prev.op = "load_wallet"
  /\ prev.ok
  /\ last.op = "load_wallet"
  /\ ~last.ok
  /\ last.before = [exists |-> TRUE, data |-> <<>>]
  /\ seed_file = last.before
====
